---------------------------- MODULE Spec2Model ----------------------------
(***************************************************************************)
(* A model of the statistical helpers of src/src/utils.py:                 *)
(*   find_outliers, cramers_v, categorical_correlation_matrix,             *)
(*   categorical_and_numeric_correlation and count_prevalence_rate.        *)
(*                                                                         *)
(* and of encode_feature_from_list, which writes into the DataFrame it is  *)
(* given; the other helpers only read theirs.  The state is the            *)
(* DataFrame a notebook holds (df), the last call made on it (call) and    *)
(* what that call produced (result): a returned value or a raised          *)
(* exception.  Real numbers are kept exact: a rational is a pair           *)
(* <<numerator, denominator>> in lowest terms with a positive denominator, *)
(* a square root is kept as its (rational) square, and a float NaN is the  *)
(* record [kind |-> "nan"].  All inputs are small integers, for which the  *)
(* binary floating point arithmetic of the quartile step is exact.         *)
(***************************************************************************)
EXTENDS Integers, Sequences, FiniteSets, TLC

VARIABLES df, call, result

vars == <<df, call, result>>

(***************************************************************************)
(* Bounds of the model.                                                    *)
(***************************************************************************)
MaxRowsOutliers == 5   \* rows of a dataset given to find_outliers
MaxValue == 2          \* numeric cells are drawn from 0..MaxValue (or missing)
MaxLimit == 2          \* outliers_num is drawn from 0..MaxLimit
MaxRowsAssoc == 3      \* rows of a dataset given to the Cramer's V helpers
MaxRowsAnova == 3      \* rows of a dataset given to the ANOVA helper
MaxRowsPrev == 4       \* rows of a dataset given to count_prevalence_rate
MaxArgs == 3           \* length of a list of column names given to a helper

(***************************************************************************)
(* Values.                                                                 *)
(***************************************************************************)
\* A missing numeric cell (numpy.nan in a float64 column).  Present cells
\* are >= 0, so the two never collide.
NaN == -1

\* A missing label that is a float NaN (in an object or category column).
NA == "NaN"

\* A missing label that is None, which only an object column can hold: a
\* category column stores it as NaN.
None == "None"

\* pd.isna(cell) for a label.
IsNa(cell) == cell \in {NA, None}

NanResult == [kind |-> "nan"]

Raise(exc) == [kind |-> "raise", exc |-> exc]

Range(s) == {s[i] : i \in 1..Len(s)}

Min2(a, b) == IF a <= b THEN a ELSE b

Max2(a, b) == IF a >= b THEN a ELSE b

Abs(a) == IF a >= 0 THEN a ELSE -a

RECURSIVE Gcd(_, _)
Gcd(a, b) == IF b = 0 THEN a ELSE Gcd(b, a % b)

\* The rational num/den (den # 0) in lowest terms, denominator positive.
Rat(num, den) ==
    LET g == Gcd(Abs(num), Abs(den))
        s == IF den < 0 THEN -1 ELSE 1
    IN  <<(s * num) \div g, (s * den) \div g>>

(***************************************************************************)
(* DataFrames: a sequence of columns, each with a name, a dtype and one    *)
(* cell per row.                                                           *)
(***************************************************************************)
Column(name, dtype, values) == [name |-> name, dtype |-> dtype, values |-> values]

\* df[col]
Series(frame, col) == (CHOOSE c \in Range(frame) : c.name = col).values

\* len(df)
NRows(frame) == Len(frame[1].values)

\* df.columns
ColumnNames(frame) == [i \in 1..Len(frame) |-> frame[i].name]

\* The sequences over S of length 0..n.
SeqsUpTo(S, n) == UNION {[1..k -> S] : k \in 0..n}

(***************************************************************************)
(* find_outliers                                                           *)
(***************************************************************************)
\* Series.dropna(): the cells that are not missing, in row order.
RECURSIVE DropNa(_)
DropNa(values) ==
    IF values = <<>> THEN <<>>
    ELSE IF Head(values) = NaN THEN DropNa(Tail(values))
    ELSE <<Head(values)>> \o DropNa(Tail(values))

RECURSIVE InsertSorted(_, _)
InsertSorted(sorted, v) ==
    IF sorted = <<>> THEN <<v>>
    ELSE IF v < Head(sorted) THEN <<v>> \o sorted
    ELSE <<Head(sorted)>> \o InsertSorted(Tail(sorted), v)

RECURSIVE SortValues(_)
SortValues(values) ==
    IF values = <<>> THEN <<>>
    ELSE InsertSorted(SortValues(Tail(values)), Head(values))

\* 4 * Series.quantile(q4 / 4) with the default interpolation="linear":
\* missing cells are skipped; the virtual index q * (n - 1) is split into
\* its floor and its fraction and the two neighbouring order statistics
\* are interpolated.  NaN when no cell is present.
Quantile4(values, q4) ==
    LET s == SortValues(DropNa(values))
        n == Len(s)
    IN  IF n = 0 THEN NanResult
        ELSE LET lo == (q4 * (n - 1)) \div 4
                 fr == (q4 * (n - 1)) % 4
             IN  [kind |-> "value",
                  v |-> IF fr = 0 THEN 4 * s[lo + 1]
                        ELSE (4 - fr) * s[lo + 1] + fr * s[lo + 2]]

\* 8 * lower_bound, from 4 * Q1 and 4 * Q3: Q1 - 1.5 * IQR.
LowerBound8(Q1, Q3) == 2 * Q1 - 3 * (Q3 - Q1)

UpperBound8Narrow(Q1, Q3) == 2 * Q3 + 2 * (Q3 - Q1)

\* 8 * upper_bound, from 4 * Q1 and 4 * Q3: Q3 + 1.5 * IQR.
UpperBound8(Q1, Q3) == 2 * Q3 + 3 * (Q3 - Q1)

\* df.query(f"{col} < {lower_bound} or {col} > {upper_bound}"): the rows
\* (by position) whose cell satisfies the expression; a missing cell
\* compares False on both sides.
QueryRows(values, lower8, upper8) ==
    {i \in 1..Len(values) :
        /\ values[i] # NaN
        /\ (8 * values[i] < lower8 \/ 8 * values[i] > upper8)}

\* .sort_values(col): the orders of the rows ascending by cell.  The default
\* sort is not stable, so rows with equal cells may come in any order.
SortedOrders(values, rows) ==
    LET k == Cardinality(rows)
    IN  {s \in [1..k -> rows] :
            /\ \A i, j \in 1..k : i # j => s[i] # s[j]
            /\ \A i \in 1..(k - 1) : values[s[i]] <= values[s[i + 1]]}

HeadRows(s, n) == [i \in 1..Min2(n, Len(s)) |-> s[i]]

\* .tail(n) for n >= 0: the last n rows (all of them when there are fewer).
TailRows(s, n) ==
    LET k == Len(s)
        m == Min2(n, k)
    IN  [i \in 1..m |-> s[k - m + i]]

\* The outcomes of find_outliers(df, col, outliers_num).  With no present
\* cell both quartiles are NaN and the query text reads "col < nan or
\* col > nan", in which nan is an undefined name.
find_outliers(frame, col, outliers_num) ==
    LET values == Series(frame, col)
        Q1 == Quantile4(values, 1)
        Q3 == Quantile4(values, 3)
    IN  IF Q1.kind = "nan"
        THEN {Raise("UndefinedVariableError")}
        ELSE LET flagged == QueryRows(values, LowerBound8(Q1.v, Q3.v),
                                      UpperBound8(Q1.v, Q3.v))
             IN  {[kind |-> "value", rows |-> TailRows(s, outliers_num)] :
                      s \in SortedOrders(values, flagged)}

\* The dataset of the specification's quartile example.
ExampleOutlierValues == <<1, 2, 3, 4, 5, 6, 7, 8, 9, 100>>

OutlierFrames ==
    {<<Column("x", "float64", v)>> :
        v \in SeqsUpTo(0..MaxValue \cup {NaN}, MaxRowsOutliers) \cup {ExampleOutlierValues}}

\* A script loads a frame, may encode one of its columns, and makes one
\* call of a statistical helper on it.  The statistical helpers do not
\* change the frame, so a second call would only repeat the first.
NoCall == [op |-> "none"]

\* No statistical helper has been called yet.
BeforeHelper == call.op \in {"none", "encode_feature_from_list"}

InitOutliers ==
    /\ df \in OutlierFrames
    /\ call = NoCall
    /\ result = NoCall

CallFindOutliers ==
    /\ BeforeHelper
    /\ \E outliers_num \in 0..MaxLimit :
         /\ call' = [op |-> "find_outliers", col |-> "x", outliers_num |-> outliers_num]
         /\ result' \in find_outliers(df, "x", outliers_num)
    /\ UNCHANGED df

NextOutliers == CallFindOutliers

SpecOutliers == InitOutliers /\ [][NextOutliers]_vars

(***************************************************************************)
(* encode_feature_from_list                                                *)
(***************************************************************************)
\* The cells of an object column are strings in the model: the text of a
\* str cell, a missing label (NA or None), or a list object.  These are the texts
\* of the str cells that are list literals.
ListLiterals == {"['p']", "['p', 'q']"}

\* The cell holding the list object that the literal text denotes; it is
\* not the str cell with that text.
ListCell(text) == "list " \o text

ListCells == {ListCell(text) : text \in ListLiterals}

\* The items of a list cell.
ListItems(cell) ==
    IF cell = ListCell("['p']") THEN {"p"}
    ELSE IF cell = ListCell("['p', 'q']") THEN {"p", "q"}
    ELSE {}

\* The labels that occur in lists, in sorted order.
SortedClasses == <<"p", "q">>

\* isinstance(x, str)
IsStr(cell) == ~IsNa(cell) /\ cell \notin ListCells

\* ast.literal_eval(text): the list of a list literal; the text of a bare
\* label (a name) is refused.
literal_eval(text) ==
    IF text \in ListLiterals THEN [kind |-> "value", v |-> ListCell(text)]
    ELSE Raise("ValueError")

\* lambda x: ast.literal_eval(x) if isinstance(x, str) else x
EvalIfStr(cell) ==
    IF IsStr(cell) THEN literal_eval(cell) ELSE [kind |-> "value", v |-> cell]

\* The dtype of Series.apply's result on an object column.  With no row
\* the dtype is kept.  The results are converted when they are all numbers
\* or missing: cells that are all missing with a float NaN among them give
\* float64; cells that are all None are left as they are, and so is a
\* column with a list in it: object.
AppliedDtype(dtype, values) ==
    IF Len(values) = 0 THEN dtype
    ELSE IF (\A i \in 1..Len(values) : IsNa(values[i]))
            /\ (\E i \in 1..Len(values) : values[i] = NA) THEN "float64"
    ELSE "object"

\* The cells of Series.apply's result: in a float64 result every missing
\* cell is NaN.
AppliedCells(dtype, values) ==
    IF AppliedDtype(dtype, values) = "float64"
    THEN [i \in 1..Len(values) |-> NA]
    ELSE values

\* df[encode_feature] = <values>: the column is replaced in its place.
SetItem(frame, name, dtype, values) ==
    [i \in 1..Len(frame) |->
        IF frame[i].name = name THEN Column(name, dtype, values) ELSE frame[i]]

\* MultiLabelBinarizer().fit_transform(cells) as a frame with the prefix
\* added: one 0/1 column per item that occurs, in sorted order.
RoleColumns(encode_feature, cells) ==
    LET classes == SelectSeq(SortedClasses,
                       LAMBDA c : \E i \in 1..Len(cells) : c \in ListItems(cells[i]))
    IN  [k \in 1..Len(classes) |->
            Column(encode_feature \o "_" \o classes[k], "int64",
                   [i \in 1..Len(cells) |->
                       IF classes[k] \in ListItems(cells[i]) THEN 1 ELSE 0])]

\* encode_feature_from_list(df, encode_feature) for an object column:
\* frame is the caller's DataFrame after the call and outcome what the call
\* returned or raised.  A str cell that is no literal makes literal_eval
\* raise before anything is assigned.  Otherwise the evaluated cells are
\* assigned to the caller's column; after that a missing cell makes
\* fit_transform raise (neither a float nor None is iterable), and else the
\* frame returned, another object, has the indicator columns in place of
\* encode_feature.
encode_feature_from_list(frame, encode_feature) ==
    LET cells == Series(frame, encode_feature)
        dtype == (CHOOSE c \in Range(frame) : c.name = encode_feature).dtype
        evaluated == [i \in 1..Len(cells) |-> EvalIfStr(cells[i])]
        lists == [i \in 1..Len(cells) |-> evaluated[i].v]
        assigned == SetItem(frame, encode_feature, AppliedDtype(dtype, lists),
                            AppliedCells(dtype, lists))
    IN  IF \E i \in 1..Len(cells) : evaluated[i].kind = "raise"
        THEN [frame |-> frame, outcome |-> Raise("ValueError")]
        ELSE IF \E i \in 1..Len(cells) : IsNa(lists[i])
        THEN [frame |-> assigned, outcome |-> Raise("TypeError")]
        ELSE [frame |-> assigned,
              outcome |-> [kind |-> "value",
                           frame |-> SelectSeq(assigned,
                                         LAMBDA c : c.name # encode_feature)
                                     \o RoleColumns(encode_feature, lists)]]

\* The columns a script may encode: those of object dtype.
ObjectColumns(frame) ==
    SelectSeq([i \in 1..Len(frame) |-> frame[i].name],
              LAMBDA c : (CHOOSE f \in Range(frame) : f.name = c).dtype = "object")

CallEncodeFeatureFromList ==
    /\ call = NoCall
    /\ \E encode_feature \in Range(ObjectColumns(df)) :
         LET done == encode_feature_from_list(df, encode_feature)
         IN  /\ call' = [op |-> "encode_feature_from_list",
                         encode_feature |-> encode_feature]
             /\ df' = done.frame
             /\ result' = done.outcome

(***************************************************************************)
(* cramers_v and categorical_correlation_matrix                            *)
(***************************************************************************)
RatAdd(p, q) == Rat(p[1] * q[2] + q[1] * p[2], p[2] * q[2])

RECURSIVE RatSum(_, _)
\* The sum of term[c] over the cells c of a finite set.
RatSum(cells, term) ==
    IF cells = {} THEN <<0, 1>>
    ELSE LET c == CHOOSE e \in cells : TRUE
         IN  RatAdd(term[c], RatSum(cells \ {c}, term))

RECURSIVE IntSum(_, _)
\* The sum of count[c] over the cells c of a finite set.
IntSum(cells, count) ==
    IF cells = {} THEN 0
    ELSE LET c == CHOOSE e \in cells : TRUE
         IN  count[c] + IntSum(cells \ {c}, count)

\* pd.crosstab(x, y): the rows where either label is missing are dropped;
\* the index holds the labels of x that remain, the columns those of y, and
\* each cell counts the rows with that pair of labels.
crosstab(x, y) ==
    LET kept == {i \in 1..Len(x) : ~IsNa(x[i]) /\ ~IsNa(y[i])}
        index == {x[i] : i \in kept}
        columns == {y[i] : i \in kept}
    IN  [index |-> index,
         columns |-> columns,
         count |-> [c \in index \X columns |->
                       Cardinality({i \in kept : x[i] = c[1] /\ y[i] = c[2]})]]

\* contingency_table.sum().sum()
TableTotal(t) ==
    IntSum(t.index \X t.columns, t.count)

RowTotal(t, a) ==
    IntSum({a} \X t.columns, t.count)

ColTotal(t, b) ==
    IntSum(t.index \X {b}, t.count)

ChiSquareAway(t, yates) ==
    LET n == TableTotal(t)
        Term(c) ==
            LET rc == RowTotal(t, c[1]) * ColTotal(t, c[2])
                d == Abs(rc - n * t.count[c])
            IN  IF yates
                THEN Rat((2 * d + n) * (2 * d + n), 4 * n * rc)
                ELSE Rat(d * d, n * rc)
    IN  RatSum(t.index \X t.columns, [c \in t.index \X t.columns |-> Term(c)])

\* Pearson's statistic of a table whose margins are all positive: the sum
\* over the cells of (observed - expected)^2 / expected, with
\* expected = row total * column total / n.  With yates, each observed
\* count is first moved towards its expected count by min(0.5, |difference|).
ChiSquare(t, yates) ==
    LET n == TableTotal(t)
        Term(c) ==
            LET rc == RowTotal(t, c[1]) * ColTotal(t, c[2])
                d == Abs(rc - n * t.count[c])
            IN  IF yates
                THEN Rat(Max2(2 * d - n, 0) * Max2(2 * d - n, 0), 4 * n * rc)
                ELSE Rat(d * d, n * rc)
    IN  RatSum(t.index \X t.columns, [c \in t.index \X t.columns |-> Term(c)])

\* scipy.stats.chi2_contingency(table)[0] with its defaults
\* (correction=True): an empty table is refused, a table with a single row
\* or column (dof = 0) has statistic 0.0, and a table with dof = 1 (2 x 2)
\* gets Yates' continuity correction.
chi2_contingency(t) ==
    LET r == Cardinality(t.index)
        k == Cardinality(t.columns)
        dof == (r - 1) * (k - 1)
    IN  IF r * k = 0 THEN Raise("ValueError")
        ELSE IF dof = 0 THEN [kind |-> "value", chi2 |-> <<0, 1>>]
        ELSE [kind |-> "value", chi2 |-> ChiSquare(t, dof = 1)]

MinDimFirst(r, k) == r

\* min(r, k)
MinDim(r, k) == Min2(r, k)

\* A list is unhashable, so pd.crosstab cannot group by a column that
\* holds one.
Unhashable(x) == \E i \in 1..Len(x) : x[i] \in ListCells

\* cramers_v(x, y).  The value returned is sqrt(sq); sq is kept instead of
\* its root.  When min(r, k) = 1 the quotient is 0.0 / 0, which numpy
\* evaluates to NaN (with a RuntimeWarning), and sqrt(NaN) is NaN.
cramers_v(x, y) ==
    LET contingency_table == crosstab(x, y)
        stat == chi2_contingency(contingency_table)
        n == TableTotal(contingency_table)
        r == Cardinality(contingency_table.index)
        k == Cardinality(contingency_table.columns)
        den == n * (MinDim(r, k) - 1)
    IN  IF Unhashable(x) \/ Unhashable(y) THEN Raise("TypeError")
        ELSE IF stat.kind = "raise" THEN stat
        ELSE IF den = 0 THEN NanResult
        ELSE [kind |-> "value", sq |-> Rat(stat.chi2[1], stat.chi2[2] * den)]

\* df.select_dtypes(include=["object", "category"]).columns
CategoricalColumns(frame) ==
    SelectSeq([i \in 1..Len(frame) |-> frame[i].name],
              LAMBDA c : (CHOOSE f \in Range(frame) : f.name = c).dtype
                             \in {"object", "category"})

One == [kind |-> "value", sq |-> <<1, 1>>]

MatrixCellNoDiagonal(frame, cols, i, j) ==
    cramers_v(Series(frame, cols[i]), Series(frame, cols[j]))

\* The body of the double loop: what corr_matrix.iloc[i, j] is set to.
MatrixCell(frame, cols, i, j) ==
    IF i # j THEN cramers_v(Series(frame, cols[i]), Series(frame, cols[j]))
    ELSE One

\* categorical_correlation_matrix(df): the loop runs over i, and for each i
\* over j; the first exception of cramers_v ends it and leaves the function.
categorical_correlation_matrix(frame) ==
    LET categorical_columns == CategoricalColumns(frame)
        n == Len(categorical_columns)
        cells == [c \in (1..n) \X (1..n) |->
                     MatrixCell(frame, categorical_columns, c[1], c[2])]
        raising == {c \in (1..n) \X (1..n) : cells[c].kind = "raise"}
        first == CHOOSE c \in raising :
                     \A d \in raising : c[1] < d[1] \/ (c[1] = d[1] /\ c[2] <= d[2])
    IN  IF raising # {} THEN cells[first]
        ELSE [kind |-> "value", index |-> categorical_columns,
              columns |-> categorical_columns, cells |-> cells]

LabelsA == {"p", "q", "r"}

LabelsB == {"p", "q", NA}

\* A column that is the same in every dataset of n rows.
FixedLabels(n) == [i \in 1..n |-> IF i % 2 = 1 THEN "p" ELSE "q"]

\* A column of str cells that are list literals, the same in every dataset
\* of n rows.
FixedListLiterals(n) == [i \in 1..n |-> IF i % 2 = 1 THEN "['p']" ELSE "['p', 'q']"]

AssocFrames ==
    UNION {{<<Column("a", "object", a),
              Column("x", "float64", [i \in 1..n |-> 0]),
              Column("b", "category", b),
              Column("c", "object", FixedListLiterals(n))>> :
               a \in [1..n -> LabelsA], b \in [1..n -> LabelsB]} :
           n \in 0..MaxRowsAssoc}

InitAssoc ==
    /\ df \in AssocFrames
    /\ call = NoCall
    /\ result = NoCall

CallCramersV ==
    /\ BeforeHelper
    /\ \E x, y \in Range(CategoricalColumns(df)) :
         /\ call' = [op |-> "cramers_v", x |-> x, y |-> y]
         /\ result' = cramers_v(Series(df, x), Series(df, y))
    /\ UNCHANGED df

CallCategoricalCorrelationMatrix ==
    /\ BeforeHelper
    /\ call' = [op |-> "categorical_correlation_matrix"]
    /\ result' = categorical_correlation_matrix(df)
    /\ UNCHANGED df

NextAssoc ==
    \/ CallEncodeFeatureFromList
    \/ CallCramersV
    \/ CallCategoricalCorrelationMatrix

SpecAssoc == InitAssoc /\ [][NextAssoc]_vars

(***************************************************************************)
(* categorical_and_numeric_correlation                                     *)
(***************************************************************************)
RECURSIVE SumSeq(_)
SumSeq(s) == IF s = <<>> THEN 0 ELSE Head(s) + SumSeq(Tail(s))

RECURSIVE Unique(_)
\* Series.unique(): the distinct cells in order of first appearance.  The
\* missing labels are among them: NaN once, however many cells hold it, and
\* None once, apart from NaN.
Unique(values) ==
    IF values = <<>> THEN <<>>
    ELSE LET init == Unique(SubSeq(values, 1, Len(values) - 1))
             last == values[Len(values)]
         IN  IF last \in Range(init) THEN init ELSE Append(init, last)

\* df[df[col] == category][numeric_feature]: the numeric cells of the rows
\* whose label equals category.  Nothing compares equal to NaN or to None,
\* so the group of a missing label is empty.
Group(labels, numbers, category) ==
    LET rows == SelectSeq([i \in 1..Len(labels) |-> i],
                          LAMBDA i : ~IsNa(category) /\ labels[i] = category)
    IN  [j \in 1..Len(rows) |-> numbers[rows[j]]]

\* The list comprehension: one group per entry of df[col].unique().
Groups(labels, numbers) ==
    LET u == Unique(labels)
    IN  [g \in 1..Len(u) |-> Group(labels, numbers, u[g])]

\* scipy.stats.f_oneway(*groups)[1].  Fewer than two samples are refused;
\* an empty sample, samples that all have length 1, and data that are all
\* one value give NaN (with a warning); samples that are each constant but
\* differ give F = inf and p = 0.  Otherwise p = fdtrc(dfbn, dfwn, F), which
\* is kept as the triple: F = (ssbn / dfbn) / (sswn / dfwn).
f_oneway(groups) ==
    LET G == Len(groups)
        all == [g \in 1..G |-> SumSeq(groups[g])]
        N == SumSeq([g \in 1..G |-> Len(groups[g])])
        T == SumSeq(all)
        squares == SumSeq([g \in 1..G |->
                       SumSeq([i \in 1..Len(groups[g]) |-> groups[g][i] * groups[g][i]])])
        between == RatSum(1..G, [g \in 1..G |-> Rat(all[g] * all[g], Len(groups[g]))])
        ssbn == RatAdd(between, Rat(-(T * T), N))
        sswn == RatAdd(<<squares, 1>>, <<-between[1], between[2]>>)
        dfbn == G - 1
        dfwn == N - G
        const(g) == \A i \in 1..Len(groups[g]) : groups[g][i] = groups[g][1]
    IN  IF G < 2 THEN Raise("TypeError")
        ELSE IF \E g \in 1..G : Len(groups[g]) = 0 THEN NanResult
        ELSE IF \A g \in 1..G : Len(groups[g]) = 1 THEN NanResult
        ELSE IF \A g \in 1..G : const(g) /\ groups[g][1] = groups[1][1] THEN NanResult
        ELSE IF \A g \in 1..G : const(g)
             THEN [kind |-> "value", dfbn |-> dfbn, dfwn |-> dfwn, F |-> <<1, 0>>]
        ELSE [kind |-> "value", dfbn |-> dfbn, dfwn |-> dfwn,
              F |-> Rat(ssbn[1] * sswn[2] * dfwn, ssbn[2] * sswn[1] * dfbn)]

DictItemsKeepingDuplicates(keys, value) ==
    [i \in 1..Len(keys) |-> <<keys[i], value[keys[i]]>>]

RECURSIVE DictItems(_, _)
\* list(p_values.items()) after p_values[col] = p for each col in turn: a
\* key keeps the place of its first assignment and the value of its last.
DictItems(keys, value) ==
    IF keys = <<>> THEN <<>>
    ELSE LET init == DictItems(SubSeq(keys, 1, Len(keys) - 1), value)
             k == keys[Len(keys)]
         IN  IF \E i \in 1..Len(init) : init[i][1] = k
             THEN init
             ELSE Append(init, <<k, value[k]>>)

\* categorical_and_numeric_correlation(df, numeric_feature,
\* categorical_columns): the rows (Feature, p_value) of the frame returned.
\* An exception of f_oneway leaves the function.
categorical_and_numeric_correlation(frame, numeric_feature, categorical_columns) ==
    LET numbers == Series(frame, numeric_feature)
        p_value == [col \in Range(categorical_columns) |->
                       f_oneway(Groups(Series(frame, col), numbers))]
    IN  IF \E col \in Range(categorical_columns) : p_value[col].kind = "raise"
        THEN Raise("TypeError")
        ELSE [kind |-> "value", rows |-> DictItems(categorical_columns, p_value)]

AnovaLabels == {"p", "q", NA, None}

AnovaFrames ==
    UNION {{<<Column("a", "object", a),
              Column("b", "category", FixedLabels(n)),
              Column("x", "float64", x)>> :
               a \in [1..n -> AnovaLabels], x \in [1..n -> 0..1]} :
           n \in 0..MaxRowsAnova}

InitAnova ==
    /\ df \in AnovaFrames
    /\ call = NoCall
    /\ result = NoCall

CallCategoricalAndNumericCorrelation ==
    /\ BeforeHelper
    /\ \E categorical_columns \in SeqsUpTo({"a", "b"}, MaxArgs) :
         /\ call' = [op |-> "categorical_and_numeric_correlation",
                     numeric_feature |-> "x",
                     categorical_columns |-> categorical_columns]
         /\ result' = categorical_and_numeric_correlation(df, "x", categorical_columns)
    /\ UNCHANGED df

NextAnova ==
    \/ CallEncodeFeatureFromList
    \/ CallCategoricalAndNumericCorrelation

SpecAnova == InitAnova /\ [][NextAnova]_vars

(***************************************************************************)
(* count_prevalence_rate                                                   *)
(***************************************************************************)
\* The square of the normal quantile z = norm.isf(alpha / 2) for
\* alpha = 0.05, z^2 = 3.841459, as the fraction 315 / 82 = 3.841463.
ZSquaredNum == 315

ZSquaredDen == 82

\* Series.mean(): the mean of the present cells; NaN when there is none.
Mean(values) ==
    LET present == DropNa(values)
    IN  IF present = <<>> THEN NanResult
        ELSE [kind |-> "value", q |-> Rat(SumSeq(present), Len(present))]

\* Series.sum(): the sum of the present cells (0 when there is none).
Sum(values) == SumSeq(DropNa(values))

\* One end of a Wilson interval: the real number (c + sign * sqrt(rad)) / m,
\* with rad a rational and m > 0.
Surd(c, sign, rad, m) == [kind |-> "value", c |-> c, sign |-> sign, rad |-> rad, m |-> m]

\* statsmodels proportion_confint(count, nobs, alpha=0.05, method="wilson"):
\*   center = (q + z^2 / (2 nobs)) / (1 + z^2 / nobs),
\*   dist = z * sqrt(q (1 - q) / nobs + z^2 / (4 nobs^2)) / (1 + z^2 / nobs),
\* with q = count / nobs, and the pair (center - dist, center + dist); the
\* pair is not clipped for this method.  With nobs = 0, q = 0 / 0 is NaN and
\* so are both ends.  Both ends are written over the common denominator
\* m = 2 (nobs * ZSquaredDen + ZSquaredNum).
proportion_confint(count, nobs) ==
    LET A == ZSquaredNum
        B == ZSquaredDen
        c == 2 * count * B + A
        rad == <<A * (4 * count * (nobs - count) * B + nobs * A), nobs>>
        m == 2 * (nobs * B + A)
    IN  IF nobs = 0 THEN <<NanResult, NanResult>>
        ELSE <<Surd(c, -1, rad, m), Surd(c, 1, rad, m)>>

\* The loop body of count_prevalence_rate for one condition.
PrevalenceRecord(frame, condition) ==
    LET prevalence == Mean(Series(frame, condition))
        positive_count == Sum(Series(frame, condition))
        all_count == NRows(frame)
        ci == proportion_confint(positive_count, all_count)
    IN  [Condition |-> condition, PrevalenceRate |-> prevalence,
         LowerBound |-> ci[1], UpperBound |-> ci[2]]

\* count_prevalence_rate(df, conditions): the rows of the frame returned.
count_prevalence_rate(frame, conditions) ==
    [kind |-> "value",
     rows |-> [i \in 1..Len(conditions) |-> PrevalenceRecord(frame, conditions[i])]]

PrevalenceFrames ==
    UNION {{<<Column("c1", "float64", c1), Column("c2", "int64", c2)>> :
               c1 \in [1..n -> {0, 1, NaN}], c2 \in [1..n -> {0, 1}]} :
           n \in 0..MaxRowsPrev}

InitPrevalence ==
    /\ df \in PrevalenceFrames
    /\ call = NoCall
    /\ result = NoCall

CallCountPrevalenceRate ==
    /\ BeforeHelper
    /\ \E conditions \in SeqsUpTo({"c1", "c2"}, MaxArgs) :
         /\ call' = [op |-> "count_prevalence_rate", conditions |-> conditions]
         /\ result' = count_prevalence_rate(df, conditions)
    /\ UNCHANGED df

NextPrevalence == CallCountPrevalenceRate

SpecPrevalence == InitPrevalence /\ [][NextPrevalence]_vars

(***************************************************************************)
(* All helpers together.                                                   *)
(***************************************************************************)
Init == InitOutliers \/ InitAssoc \/ InitAnova \/ InitPrevalence

\* Each call names columns of the frame it is made on.
Next ==
    \/ CallEncodeFeatureFromList
    \/ (ColumnNames(df) = <<"x">> /\ CallFindOutliers)
    \/ (ColumnNames(df) = <<"a", "x", "b", "c">> /\ CallCramersV)
    \/ (ColumnNames(df) = <<"a", "x", "b", "c">> /\ CallCategoricalCorrelationMatrix)
    \/ (ColumnNames(df) = <<"a", "b", "x">> /\ CallCategoricalAndNumericCorrelation)
    \/ (ColumnNames(df) = <<"c1", "c2">> /\ CallCountPrevalenceRate)

Spec == Init /\ [][Next]_vars

(***************************************************************************)
(* Properties of find_outliers.                                            *)
(***************************************************************************)
Called(op) == call.op = op

\* The k-th smallest (k = 0, 1, ...) of the present cells, by rank: fewer
\* than k + 1 cells lie below it and at least k + 1 cells are at most it.
RankValue(values, k) ==
    LET present == {i \in 1..Len(values) : values[i] # NaN}
    IN  CHOOSE v \in {values[i] : i \in present} :
            /\ Cardinality({i \in present : values[i] < v}) <= k
            /\ Cardinality({i \in present : values[i] <= v}) > k

\* Four times the quantile q4 / 4 by linear interpolation between the
\* closest ranks.
InterpolatedQuartile4(values, q4) ==
    LET n == Cardinality({i \in 1..Len(values) : values[i] # NaN})
        h == q4 * (n - 1)
    IN  IF h % 4 = 0 THEN 4 * RankValue(values, h \div 4)
        ELSE (4 - (h % 4)) * RankValue(values, h \div 4)
             + (h % 4) * RankValue(values, (h \div 4) + 1)

\* The rows outside [Q1 - 1.5 IQR, Q3 + 1.5 IQR], everything times 8.
OutsideFence(values) ==
    LET Q1 == InterpolatedQuartile4(values, 1)
        Q3 == InterpolatedQuartile4(values, 3)
    IN  {i \in 1..Len(values) :
            /\ values[i] # NaN
            /\ \/ 8 * values[i] < 2 * Q1 - 3 * (Q3 - Q1)
               \/ 8 * values[i] > 2 * Q3 + 3 * (Q3 - Q1)}

\* C1: the rows find_outliers returns all lie outside the fence
\* [Q1 - 1.5 IQR, Q3 + 1.5 IQR] of the interpolated quartiles, every row
\* outside the fence is returned when outliers_num allows that many rows,
\* and for [1,2,3,4,5,6,7,8,9,100] (Q1 = 3.25, Q3 = 7.75, upper = 14.5) the
\* one row flagged is the row of 100.
C1_FlagsExactlyOutsideFence ==
    (Called("find_outliers") /\ result.kind = "value") =>
        LET values == Series(df, call.col)
        IN  /\ Range(result.rows) \subseteq OutsideFence(values)
            /\ call.outliers_num >= Cardinality(OutsideFence(values))
                   => Range(result.rows) = OutsideFence(values)
            /\ values = ExampleOutlierValues =>
                   /\ InterpolatedQuartile4(values, 1) = 13
                   /\ InterpolatedQuartile4(values, 3) = 31
                   /\ OutsideFence(values) = {10}
                   /\ call.outliers_num >= 1 => result.rows = <<10>>

C1_Witness ==
    /\ Called("find_outliers")
    /\ result.kind = "value"
    /\ Series(df, "x") # ExampleOutlierValues
    /\ Len(result.rows) = 2
    /\ \E i \in 1..NRows(df) : Series(df, "x")[i] # NaN /\ i \notin Range(result.rows)

\* C8: find_outliers raises when the column has fewer than 4 present
\* values, and returns no rows then.
C8_FewerThanFourValuesRaises ==
    (Called("find_outliers") /\ Len(DropNa(Series(df, call.col))) < 4) =>
        result.kind = "raise"

\* C11: find_outliers returns the last outliers_num of the flagged rows in
\* ascending order of the column: the rows returned are distinct flagged
\* rows in ascending order, there are min(outliers_num, number flagged) of
\* them, and each returned value is >= every flagged value not returned, so
\* a row below the fence is returned only if fewer than outliers_num rows
\* lie above it.
C11_LastLimitRowsAscending ==
    (Called("find_outliers") /\ result.kind = "value") =>
        LET values == Series(df, call.col)
            flagged == OutsideFence(values)
            rows == result.rows
            Q3 == InterpolatedQuartile4(values, 3)
            high == {i \in flagged : 4 * values[i] > Q3}
        IN  /\ Range(rows) \subseteq flagged
            /\ \A i, j \in 1..Len(rows) : i < j =>
                   (rows[i] # rows[j] /\ values[rows[i]] <= values[rows[j]])
            /\ Len(rows) = Min2(call.outliers_num, Cardinality(flagged))
            /\ \A i \in Range(rows) : \A j \in flagged \ Range(rows) :
                   values[i] >= values[j]
            /\ (\E i \in Range(rows) : i \notin high) =>
                   Cardinality(high) < call.outliers_num

C11_Witness ==
    /\ Called("find_outliers")
    /\ result.kind = "value"
    /\ call.outliers_num = 1
    /\ Len(result.rows) = 1
    /\ \E j \in OutsideFence(Series(df, "x")) :
           Series(df, "x")[j] < Series(df, "x")[result.rows[1]]

(***************************************************************************)
(* Properties of cramers_v and categorical_correlation_matrix.             *)
(***************************************************************************)
\* Two columns of df have a contingency table: neither holds a list, which
\* pd.crosstab cannot group by.
Tabulated(x, y) == ~Unhashable(Series(df, x)) /\ ~Unhashable(Series(df, y))

\* The shape (r, k) of the contingency table of two columns of df.
TableShape(x, y) ==
    LET t == crosstab(Series(df, x), Series(df, y))
    IN  <<Cardinality(t.index), Cardinality(t.columns)>>

MinShape(x, y) == Min2(TableShape(x, y)[1], TableShape(x, y)[2])

\* chi2 / (n * (min(r, k) - 1)) with Pearson's statistic, uncorrected.
UncorrectedSquare(x, y) ==
    LET t == crosstab(Series(df, x), Series(df, y))
        chi2 == ChiSquare(t, FALSE)
    IN  Rat(chi2[1], chi2[2] * TableTotal(t) * (MinShape(x, y) - 1))

\* C3: for a table with min(r, k) >= 2, 2 x 2 tables included, cramers_v
\* returns sqrt(chi2 / (n (min(r, k) - 1))) with chi2 Pearson's statistic
\* without continuity correction.
C3_UncorrectedPearson ==
    (Called("cramers_v") /\ Tabulated(call.x, call.y) /\ MinShape(call.x, call.y) >= 2) =>
        /\ result.kind = "value"
        /\ result.sq = UncorrectedSquare(call.x, call.y)

\* C4: cramers_v is symmetric: the call with the two columns exchanged has
\* the same outcome, and the same value when a value is returned.
C4_Symmetric ==
    Called("cramers_v") =>
        LET swapped == cramers_v(Series(df, call.y), Series(df, call.x))
        IN  /\ swapped.kind = result.kind
            /\ result.kind = "value" => swapped.sq = result.sq

C4_Witness ==
    /\ Called("cramers_v")
    /\ call.x # call.y
    /\ TableShape(call.x, call.y)[1] # TableShape(call.x, call.y)[2]
    /\ result.kind = "value"
    /\ result.sq # <<0, 1>>

\* C5: cramers_v raises whenever min(r, k) = 1; it returns nothing then,
\* NaN included.
C5_DegenerateTableRaises ==
    (Called("cramers_v") /\ Tabulated(call.x, call.y) /\ MinShape(call.x, call.y) = 1) =>
        result.kind = "raise"

\* C9: categorical_correlation_matrix returns a matrix over the categorical
\* columns in dataset order, m x m, with 1.0 on the diagonal, with
\* cramers_v(col_i, col_j) at (i, j) for i # j, and symmetric.
C9_MatrixShapeDiagonalSymmetry ==
    (Called("categorical_correlation_matrix") /\ result.kind = "value") =>
        LET m == Cardinality({i \in 1..Len(df) : df[i].dtype \in {"object", "category"}})
        IN  /\ result.index = <<"a", "b", "c">>
            /\ result.columns = result.index
            /\ Len(result.index) = m
            /\ DOMAIN result.cells = (1..m) \X (1..m)
            /\ \A i \in 1..m : result.cells[<<i, i>>] = [kind |-> "value", sq |-> <<1, 1>>]
            /\ \A i, j \in 1..m :
                   i # j =>
                       /\ result.cells[<<i, j>>] =
                              cramers_v(Series(df, result.index[i]),
                                        Series(df, result.index[j]))
                       /\ result.cells[<<i, j>>] = result.cells[<<j, i>>]

C9_Witness ==
    /\ Called("categorical_correlation_matrix")
    /\ result.kind = "value"
    /\ result.cells[<<1, 2>>].kind = "value"
    /\ result.cells[<<1, 2>>].sq \notin {<<0, 1>>, <<1, 1>>}
    /\ result.cells[<<1, 3>>] # result.cells[<<1, 2>>]

\* C10: whenever cramers_v returns a value (min(r, k) >= 2), the value lies
\* in [0, 1]: its square does.
C10_ValueInUnitInterval ==
    Called("cramers_v") =>
        /\ result.kind = "value" <=>
               (Tabulated(call.x, call.y) /\ MinShape(call.x, call.y) >= 2)
        /\ result.kind = "value" => (0 <= result.sq[1] /\ result.sq[1] <= result.sq[2])

C10_Witness ==
    /\ Called("cramers_v")
    /\ result.kind = "value"
    /\ result.sq = <<1, 1>>
    /\ call.x # call.y

(***************************************************************************)
(* Properties of categorical_and_numeric_correlation.                      *)
(***************************************************************************)
\* The labels observed in a column: those of its cells that are not
\* missing.  Each has a non-empty partition of the rows, and no other
\* partition is non-empty.
ObservedLabels(labels) ==
    {labels[i] : i \in {j \in 1..Len(labels) : ~IsNa(labels[j])}}

\* The partition of the numeric cells by observed label, the partitions in
\* some order.
Partitions(labels, numbers) ==
    LET observed == ObservedLabels(labels)
        order == CHOOSE f \in [1..Cardinality(observed) -> observed] :
                     Range(f) = observed
    IN  [g \in 1..Cardinality(observed) |->
            LET rows == SelectSeq([i \in 1..Len(labels) |-> i],
                                  LAMBDA i : labels[i] = order[g])
            IN  [j \in 1..Len(rows) |-> numbers[rows[j]]]]

\* C6: categorical_and_numeric_correlation raises when a categorical
\* column yields fewer than 2 non-empty groups (the numeric values
\* partitioned by observed label, empty partitions discarded), and
\* produces no p-value row then.
C6_FewerThanTwoGroupsRaises ==
    (/\ Called("categorical_and_numeric_correlation")
     /\ \E i \in 1..Len(call.categorical_columns) :
            Cardinality(ObservedLabels(Series(df, call.categorical_columns[i]))) < 2) =>
        result.kind = "raise"

\* The place of the first occurrence of k in a sequence that holds it.
FirstIndex(keys, k) ==
    CHOOSE i \in 1..Len(keys) :
        keys[i] = k /\ \A j \in 1..(i - 1) : keys[j] # k

\* C12 as stated: the rows returned are as many as the entries of
\* categorical_columns, and the i-th row is for the i-th entry.
C12_OneRowPerEntry ==
    (Called("categorical_and_numeric_correlation") /\ result.kind = "value") =>
        /\ Len(result.rows) = Len(call.categorical_columns)
        /\ \A i \in 1..Len(result.rows) :
               result.rows[i][1] = call.categorical_columns[i]

\* C12, amended: the rows returned are one per distinct column name of
\* categorical_columns, in the order of the names' first occurrences, and
\* when no name is repeated the rows are as many as the entries and the
\* i-th row is for the i-th entry.  The row of a column without missing
\* cells holds the p-value of the ANOVA of the column's partitions; what
\* the row of a column with missing cells holds is the matter of C6.
C12_OneRowPerDistinctName ==
    (Called("categorical_and_numeric_correlation") /\ result.kind = "value") =>
        LET cols == call.categorical_columns
            rows == result.rows
        IN  /\ {rows[i][1] : i \in 1..Len(rows)} = Range(cols)
            /\ Len(rows) = Cardinality(Range(cols))
            /\ \A i, j \in 1..Len(rows) :
                   i < j => FirstIndex(cols, rows[i][1]) < FirstIndex(cols, rows[j][1])
            /\ \A i \in 1..Len(rows) :
                   ObservedLabels(Series(df, rows[i][1])) = Range(Series(df, rows[i][1])) =>
                       rows[i][2] = f_oneway(Partitions(Series(df, rows[i][1]),
                                                        Series(df, call.numeric_feature)))
            /\ Cardinality(Range(cols)) = Len(cols) =>
                   /\ Len(rows) = Len(cols)
                   /\ \A i \in 1..Len(cols) : rows[i][1] = cols[i]

C12_Witness ==
    /\ Called("categorical_and_numeric_correlation")
    /\ call.categorical_columns = <<"b", "a", "b">>
    /\ result.kind = "value"
    /\ Len(result.rows) = 2
    /\ result.rows[1][1] = "b"
    /\ result.rows[2][1] = "a"
    /\ result.rows[1][2].kind = "value"
    /\ result.rows[2][2].kind = "value"
    /\ result.rows[1][2] # result.rows[2][2]

(***************************************************************************)
(* Properties of count_prevalence_rate.                                    *)
(***************************************************************************)
\* q <= (c + sign * sqrt(rad)) / m, for a rational q and an interval end.
RatLeSurd(q, e) ==
    LET L == q[1] * e.m - q[2] * e.c
        left == L * L * e.rad[2]
        right == q[2] * q[2] * e.rad[1]
    IN  IF e.sign = 1 THEN L <= 0 \/ left <= right
        ELSE L <= 0 /\ left >= right

\* (c + sign * sqrt(rad)) / m <= q.
SurdLeRat(e, q) ==
    LET L == q[1] * e.m - q[2] * e.c
        left == L * L * e.rad[2]
        right == q[2] * q[2] * e.rad[1]
    IN  IF e.sign = 1 THEN L >= 0 /\ right <= left
        ELSE L >= 0 \/ left <= right

\* Lower Bound <= Prevalence Rate <= Upper Bound, both bounds in [0, 1].
\* A NaN satisfies no comparison.
Contained(row) ==
    /\ row.PrevalenceRate.kind = "value"
    /\ row.LowerBound.kind = "value"
    /\ row.UpperBound.kind = "value"
    /\ SurdLeRat(row.LowerBound, row.PrevalenceRate.q)
    /\ RatLeSurd(row.PrevalenceRate.q, row.UpperBound)
    /\ RatLeSurd(<<0, 1>>, row.LowerBound)
    /\ SurdLeRat(row.UpperBound, <<1, 1>>)

\* C2: for a dataset with at least one row, every record returned by
\* count_prevalence_rate has Lower Bound <= Prevalence Rate <= Upper Bound
\* with both bounds inside [0, 1].
C2_WilsonContainment ==
    (Called("count_prevalence_rate") /\ NRows(df) >= 1) =>
        /\ result.kind = "value"
        /\ \A i \in 1..Len(result.rows) : Contained(result.rows[i])

\* Without missing cells the mean and the interval use one proportion, and
\* the containment holds.
ContainedWithoutMissing ==
    (Called("count_prevalence_rate") /\ NRows(df) >= 1) =>
        \A i \in 1..Len(result.rows) :
            NaN \notin Range(Series(df, result.rows[i].Condition))
                => Contained(result.rows[i])

\* C7: count_prevalence_rate raises when the dataset has no rows; it
\* returns no table then.
C7_EmptyDatasetRaises ==
    (Called("count_prevalence_rate") /\ NRows(df) = 0) => result.kind = "raise"

\* C13: the point estimate and the interval use one proportion: for a
\* condition column of 0, 1 and missing cells, Prevalence Rate equals
\* positive_count / n, with positive_count the sum of the column and
\* n = len(df) the trial count given to the Wilson interval.
C13_RateIsPositiveCountOverRows ==
    (Called("count_prevalence_rate") /\ NRows(df) >= 1) =>
        \A i \in 1..Len(result.rows) :
            LET values == Series(df, result.rows[i].Condition)
            IN  /\ result.rows[i].PrevalenceRate.kind = "value"
                /\ result.rows[i].PrevalenceRate.q = Rat(Sum(values), NRows(df))

\* The two proportions agree on the columns without missing cells.
RateIsPositiveCountOverRowsWithoutMissing ==
    (Called("count_prevalence_rate") /\ NRows(df) >= 1) =>
        \A i \in 1..Len(result.rows) :
            LET values == Series(df, result.rows[i].Condition)
            IN  NaN \notin Range(values) =>
                    /\ result.rows[i].PrevalenceRate.kind = "value"
                    /\ result.rows[i].PrevalenceRate.q = Rat(Sum(values), NRows(df))

=============================================================================
